---- MODULE Spec2Model ----
(***************************************************************************)
(* Model of uidemo_streamlit.py: the quote pipeline (row normalisation,    *)
(* document build, PDF conversion, mail delivery, artifact persistence)    *)
(* and the request handler handle_event that orchestrates it.              *)
(*                                                                         *)
(* Python strings are sequences of one-character strings, so that strip()  *)
(* and re.sub(r"[^\d]", "", text) are computed rather than assumed.        *)
(***************************************************************************)
EXTENDS Integers, Sequences, FiniteSets, TLC

(***************************************************************************)
(* Program constants and bounds                                            *)
(***************************************************************************)
MAX_TEMPLATE_ROWS == 9

\* longest raw row sequence handed to normalize_rows
MaxRows == 11
\* handle_event calls in one behaviour
MaxCalls == 2

(***************************************************************************)
(* Text helpers                                                            *)
(***************************************************************************)
DigitChars == <<"0", "1", "2", "3", "4", "5", "6", "7", "8", "9">>

Digits == {DigitChars[i] : i \in 1..10}

DigitVal(c) == (CHOOSE i \in 1..10 : DigitChars[i] = c) - 1

IsSpace(c) == c = " "

RECURSIVE LStrip(_)
LStrip(s) == IF s # <<>> /\ IsSpace(Head(s)) THEN LStrip(Tail(s)) ELSE s

RECURSIVE RStrip(_)
RStrip(s) ==
    IF s # <<>> /\ IsSpace(s[Len(s)]) THEN RStrip(SubSeq(s, 1, Len(s) - 1)) ELSE s

\* str.strip()
Strip(s) == RStrip(LStrip(s))

IsDigit(c) == c \in Digits

\* re.sub(r"[^\d]", "", text)
OnlyDigits(s) == SelectSeq(s, IsDigit)

RECURSIVE DecimalValue(_, _)
DecimalValue(s, acc) ==
    IF s = <<>> THEN acc ELSE DecimalValue(Tail(s), 10 * acc + DigitVal(Head(s)))

\* int(text or 0) for a text of digits
IntOfDigits(s) == IF s = <<>> THEN 0 ELSE DecimalValue(s, 0)

\* int(value) for a float given in tenths: truncation toward zero
TruncTenths(t) == IF t >= 0 THEN t \div 10 ELSE -((-t) \div 10)

(***************************************************************************)
(* Raw (untyped) values of the event payload                               *)
(***************************************************************************)
PyNone == [k |-> "none"]

PyInt(n) == [k |-> "int", v |-> n]

\* a float with one decimal, v in tenths
PyFloat(t) == [k |-> "float", v |-> t]

PyStr(s) == [k |-> "str", v |-> s]

parse_number(value) ==
    CASE value.k = "none" -> 0
      [] value.k = "int" -> value.v
      [] value.k = "float" -> TruncTenths(value.v)
      [] OTHER ->
           LET text == Strip(value.v) IN
           IF text = <<>> THEN 0 ELSE IntOfDigits(OnlyDigits(text))

\* str(row.get("model", "") or "").strip(); a model is None or a string
ModelText(value) == IF value.k = "str" THEN Strip(value.v) ELSE <<>>

EmptyRow == [model |-> <<>>, price |-> 0, qty |-> 0]

RECURSIVE CollectRows(_, _)
\* the for loop of normalize_rows
CollectRows(rows, normalized) ==
    IF rows = <<>> THEN normalized
    ELSE LET row == Head(rows)
             model == ModelText(row.model)
             price == parse_number(row.price)
             qty == parse_number(row.qty)
         IN  IF model # <<>> \/ price # 0 \/ qty # 0
             THEN CollectRows(Tail(rows),
                     Append(normalized, [model |-> model, price |-> price, qty |-> qty]))
             ELSE CollectRows(Tail(rows), normalized)

RECURSIVE PadRows(_)
\* the while loop of normalize_rows
PadRows(normalized) ==
    IF Len(normalized) < MAX_TEMPLATE_ROWS
    THEN PadRows(Append(normalized, EmptyRow))
    ELSE normalized

\* normalized[:MAX_TEMPLATE_ROWS]
TakeRows(normalized) ==
    SubSeq(normalized, 1, IF Len(normalized) < MAX_TEMPLATE_ROWS
                          THEN Len(normalized) ELSE MAX_TEMPLATE_ROWS)

normalize_rows_notrunc_mutant(rows) ==
    LET collected == CollectRows(rows, <<>>)
        nonEmpty == IF collected = <<>> THEN <<EmptyRow>> ELSE collected
    IN  PadRows(nonEmpty)

normalize_rows(rows) ==
    LET collected == CollectRows(rows, <<>>)
        nonEmpty == IF collected = <<>> THEN <<EmptyRow>> ELSE collected
    IN  TakeRows(PadRows(nonEmpty))

\* a normalized row seen again as raw payload (the same Python values)
AsRawRow(row) ==
    [model |-> PyStr(row.model), price |-> PyInt(row.price), qty |-> PyInt(row.qty)]

AsRawRows(rows) == [i \in 1..Len(rows) |-> AsRawRow(rows[i])]

(***************************************************************************)
(* Input pools for normalize_rows                                          *)
(***************************************************************************)
RawNumbers ==
    { PyNone, PyInt(0), PyInt(3), PyInt(-2), PyFloat(25), PyFloat(-17),
      PyStr(<<>>), PyStr(<<" ">>), PyStr(<<"1", ",", "0">>),
      PyStr(<<"-", "7">>), PyStr(<<" ", "5", "x">>), PyStr(<<"0", "0">>) }

RawModels == { PyNone, PyStr(<<" ">>), PyStr(<<" ", "A", " ">>) }

RawQuantities == { PyNone, PyInt(-1), PyStr(<<"3", "e">>) }

\* the first row of a sequence ranges over the pools of raw values
RichRows == [model : RawModels, price : RawNumbers, qty : RawQuantities]

\* the rows after the rich ones: an empty row, or a row tagged by its position
PlainRows(i) ==
    { [model |-> PyStr(<<>>), price |-> PyNone, qty |-> PyStr(<<" ">>)],
      [model |-> PyStr(<<"M">>), price |-> PyInt(i), qty |-> PyInt(1)] }

(***************************************************************************)
(* Totals and the savings summary                                          *)
(***************************************************************************)
\* largest multiple of 45000 among the prepay totals tried
MaxPrepaySteps == 3

RECURSIVE DecimalDigits(_)
\* the decimal digits of n >= 0
DecimalDigits(n) ==
    IF n < 10 THEN <<DigitChars[n + 1]>>
    ELSE Append(DecimalDigits(n \div 10), DigitChars[(n % 10) + 1])

RECURSIVE GroupThousands(_)
\* the "," format option: a comma before every group of three digits
GroupThousands(ds) ==
    IF Len(ds) <= 3 THEN ds
    ELSE GroupThousands(SubSeq(ds, 1, Len(ds) - 3))
            \o <<",">> \o SubSeq(ds, Len(ds) - 2, Len(ds))

\* f"{amount:,}" followed by the currency suffix (the token "won");
\* int(round(float(value))) is the value itself for an integer
format_won(value) ==
    (IF value < 0 THEN <<"-">> ELSE <<>>)
        \o GroupThousands(DecimalDigits(IF value < 0 THEN 0 - value ELSE value))
        \o <<"won">>

build_summary_text_le_mutant(total1, total2) ==
    IF total2 <= total1
    THEN <<"yearly", " ">> \o format_won((total1 - total2) * 12)
            \o <<" ", "discount", " ", "/", " ", "monthly", " ">>
            \o format_won(total1 - total2) \o <<" ", "discount">>
    ELSE <<"monthly", " ">> \o format_won(total2 - total1) \o <<" ", "extra">>

\* the words of the text are tokens: "yearly", "monthly", "discount",
\* "extra", "difference"; amounts are spelled out character by character
build_summary_text(total1, total2) ==
    IF total2 < total1
    THEN <<"yearly", " ">> \o format_won((total1 - total2) * 12)
            \o <<" ", "discount", " ", "/", " ", "monthly", " ">>
            \o format_won(total1 - total2) \o <<" ", "discount">>
    ELSE IF total2 > total1
    THEN <<"monthly", " ">> \o format_won(total2 - total1) \o <<" ", "extra">>
    ELSE <<"difference", " ", "0", "won">>

\* the prepay totals build_summary_text is applied to
PrepayTotals ==
    {i * 45000 : i \in 0..MaxPrepaySteps}
        \cup {0 - 5000, 1, 999, 1000, 80000, 1234567}

(***************************************************************************)
(* compute_totals, the prepay total and fill_template                      *)
(***************************************************************************)
\* raw rows per plan handed to the document build
MaxFillRows == 2

RECURSIVE compute_totals(_)
compute_totals(planRows) ==
    IF planRows = <<>> THEN 0
    ELSE parse_number(PyInt(Head(planRows).price)) * parse_number(PyInt(Head(planRows).qty))
            + compute_totals(Tail(planRows))

\* round() of twice/2: to the nearest integer, a tie to the even one
RoundHalf(twice) ==
    IF twice % 2 = 0 THEN twice \div 2
    ELSE LET below == (twice - 1) \div 2
         IN  IF below % 2 = 0 THEN below ELSE below + 1

\* int(round(total * (1 - max(discount, 0.0)))) for a discount given in
\* halves (0, 0.5, 1.0, 1.5), for which the float product is exact
Prepay(total, halves) ==
    RoundHalf(total * (2 - (IF halves < 0 THEN 0 ELSE halves)))

Blank == PyStr(<<>>)

TemplateColumns == {"B", "D", "E", "G", "H", "K", "N", "P", "Q"}

\* the cells of the sheet the filler may touch, each a <<column, row>>
TemplateCells == TemplateColumns \X (1..(14 + MAX_TEMPLATE_ROWS))

\* a cell of the template before it is filled
TemplateValue == PyStr(<<"template">>)

\* ws[cell] = value, as one assignment of the filler
SetCell(col, row, value) == [cell |-> <<col, row>>, value |-> value]

\* the sheet after the assignments were made in order: a cell holds the
\* value of the last assignment to it, or what the template had
ApplyWrites(writes) ==
    [c \in TemplateCells |->
        LET hits == {i \in 1..Len(writes) : writes[i].cell = c}
        IN  IF hits = {} THEN TemplateValue
            ELSE writes[CHOOSE i \in hits : \A j \in hits : j <= i].value]

\* value if value else ""
NumberOrBlank(value) == IF value # 0 THEN PyInt(value) ELSE Blank

Plan1Columns == <<"B", "E", "G", "H">>

Plan2Columns_mutant == <<"K", "E", "P", "Q">>

Plan2Columns == <<"K", "N", "P", "Q">>

\* for index, row in enumerate(plan_rows): the four assignments to excel
\* row 15 + index (index counted from 0), rows in order
FillPlan(planRows, cols) ==
    [n \in 1..(4 * Len(planRows)) |->
        LET index == (n - 1) \div 4
            k == ((n - 1) % 4) + 1
            row == planRows[index + 1]
            excel_row == 15 + index
            price == parse_number(PyInt(row.price))
            qty == parse_number(PyInt(row.qty))
            total == price * qty
        IN  SetCell(cols[k], excel_row,
                    CASE k = 1 -> PyStr(row.model)
                      [] k = 2 -> NumberOrBlank(price)
                      [] k = 3 -> NumberOrBlank(qty)
                      [] k = 4 -> NumberOrBlank(total))]

fill_template(recipient, ext, date_label, mail, rows1, rows2, t1, t2, p1, p2, text) ==
    ApplyWrites(
        << SetCell("B", 4, PyStr(recipient)),
           SetCell("B", 13, PyStr(text)),
           SetCell("D", 5, PyStr(date_label)),
           SetCell("D", 6, PyStr(ext)),
           SetCell("D", 7, PyStr(mail)),
           SetCell("E", 11, PyInt(t1)),
           SetCell("N", 11, PyInt(t2)),
           SetCell("E", 12, PyInt(p1)),
           SetCell("N", 12, PyInt(p2)) >>
        \o FillPlan(rows1, Plan1Columns)
        \o FillPlan(rows2, Plan2Columns))

\* raw rows of a plan: a price without a quantity, a full line, a quantity
\* without a price
FillRawRows ==
    { [model |-> PyStr(<<"A">>), price |-> PyInt(3), qty |-> PyNone],
      [model |-> PyStr(<<"B">>), price |-> PyStr(<<"2">>), qty |-> PyInt(5)],
      [model |-> PyNone, price |-> PyInt(0), qty |-> PyInt(4)] }

FillRawPlans == UNION {[1..k -> FillRawRows] : k \in 0..MaxFillRows}

\* discounts in halves: negative, none, a half, all, more than all
DiscountHalves == {0 - 1, 0, 1, 2, 3}

NoTotals == [t1 |-> 0, t2 |-> 0, p1 |-> 0, p2 |-> 0]

(***************************************************************************)
(* handle_event and the pipeline it runs                                   *)
(***************************************************************************)
\* scratch directory names tempfile can hand out
MaxTmp == 2

\* a path: the scratch directory n itself (name ""), a file in it, or a
\* file {file_stem}.xlsx / {file_stem}.pdf in the save directory
ScratchDir(n) == [root |-> "tmp", n |-> n, name |-> ""]

ScratchFile(n, name) == [root |-> "tmp", n |-> n, name |-> name]

SavedFile(name) == [root |-> "save", n |-> 0, name |-> name]

CleanupScratch_leak_mutant(files, n) == files

\* TemporaryDirectory.__exit__: the directory and everything in it is removed
CleanupScratch(files, n) == {f \in files : ~(f.root = "tmp" /\ f.n = n)}

ParseText_nostrip_mutant(value) == IF value.k = "str" THEN value.v ELSE <<>>

\* str(data.get(key) or "").strip()
ParseText(value) == IF value.k = "str" THEN Strip(value.v) ELSE <<>>

EventActions == {"download_pdf", "preview_pdf", "send_email", "print", "None"}

RawEmails == { PyNone, PyStr(<<>>), PyStr(<<" ">>), PyStr(<<" ", "a", "@", "b">>) }

RawRequestIds == { PyNone, PyStr(<<"r", "1">>) }

\* str(int(time.time() * 1000))
ClockId == <<"t">>

PdfContents == { <<>>, <<"%PDF">> }

NoMessage == [text |-> "", detail |-> <<>>]

NoResponse ==
    [keys |-> {}, id |-> <<>>, type |-> "", filename |-> "", content |-> <<>>,
     message |-> NoMessage]

MessageResponse(id, text, detail) ==
    [keys |-> {"id", "type", "message"}, id |-> id, type |-> "message",
     filename |-> "", content |-> <<>>,
     message |-> [text |-> text, detail |-> detail]]

\* base64.b64encode(pdf_bytes).decode("ascii")
B64(bytes) == <<"b64">> \o bytes

FileResponse(id, type, bytes) ==
    [keys |-> {"id", "type", "filename", "content"}, id |-> id, type |-> type,
     filename |-> "stem.pdf", content |-> B64(bytes), message |-> NoMessage]

SentResponse(id, bytes) ==
    [keys |-> {"id", "type", "filename", "content", "message"}, id |-> id,
     type |-> "pdf", filename |-> "stem.pdf", content |-> B64(bytes),
     message |-> [text |-> "mail_sent", detail |-> <<>>]]

NoException == [type |-> "", text |-> <<>>]

VARIABLES rows, normalized, renormalized, npc

nvars == <<rows, normalized, renormalized, npc>>

VARIABLES total1, total2, summary, summary_rev, spc

sumvars == <<total1, total2, summary, summary_rev, spc>>

VARIABLES plan1_rows_norm, plan2_rows_norm, discount1, discount2, totals, ws, fpc

fillvars == <<plan1_rows_norm, plan2_rows_norm, discount1, discount2, totals, ws, fpc>>

VARIABLES payload, last_request_id, bridge_response, runs, took, before, outcome

hostvars == <<payload, last_request_id, bridge_response, runs, took, before, outcome>>

VARIABLES isWindows, pc, calls, event, action, email, request_id, xlsx, errors,
          attempts, curTmp, fs, pdf_bytes, trace, written, response, exc

hvars == <<isWindows, pc, calls, event, action, email, request_id, xlsx, errors,
           attempts, curTmp, fs, pdf_bytes, trace, written, response, exc>>

NoEvent == [action |-> "None", email |-> PyNone, request_id |-> PyNone]

\* the event and the locals handle_event parses from it
callvars == <<event, action, email, request_id>>

cvvars == <<errors, attempts, curTmp, pdf_bytes>>

vars == <<nvars, sumvars, fillvars, hostvars, hvars>>

HInit ==
    /\ isWindows \in BOOLEAN
    /\ pc = "idle"
    /\ calls = 0
    /\ event = NoEvent
    /\ action = "None"
    /\ email = <<>>
    /\ request_id = <<>>
    /\ written = {}
    /\ xlsx = <<>>
    /\ errors = <<>>
    /\ attempts = <<>>
    /\ curTmp = 0
    /\ fs = {}
    /\ pdf_bytes = <<>>
    /\ trace = <<>>
    /\ response = NoResponse
    /\ exc = NoException

\* handle_event, lines 604-626: the event is read and its text fields parsed
HandleEvent ==
    /\ pc = "idle"
    /\ calls < MaxCalls
    /\ \E a \in EventActions, e \in RawEmails, r \in RawRequestIds :
         /\ event' = [action |-> a, email |-> e, request_id |-> r]
         /\ action' = a
         /\ email' = ParseText(e)
         /\ request_id' = IF r.k = "str" /\ r.v # <<>> THEN r.v ELSE ClockId
    /\ calls' = calls + 1
    /\ pc' = "build"
    /\ written' = {}
    /\ trace' = <<>>
    /\ response' = NoResponse
    /\ exc' = NoException
    /\ xlsx' = <<>>
    /\ UNCHANGED <<nvars, sumvars, fillvars, hostvars, isWindows, cvvars, fs>>

\* build_excel_bytes with the template present; rows, totals and summary
\* (lines 614-626) are computed from the payload and end up in the workbook
BuildDocument ==
    /\ pc = "build"
    /\ xlsx' = <<"xlsx">>
    /\ trace' = Append(trace, "build_excel_bytes")
    /\ pc' = "convert"
    /\ UNCHANGED <<nvars, sumvars, fillvars, hostvars, isWindows, written, calls, callvars, cvvars, fs, response, exc>>

\* load_template raises FileNotFoundError; nothing in handle_event catches it
TemplateMissing ==
    /\ pc = "build"
    /\ exc' = [type |-> "FileNotFoundError", text |-> <<"template_not_found">>]
    /\ trace' = Append(trace, "build_excel_bytes")
    /\ pc' = "raised"
    /\ UNCHANGED <<nvars, sumvars, fillvars, hostvars, isWindows, written, calls, callvars, cvvars, fs, response, xlsx>>

(***************************************************************************)
(* convert_excel_to_pdf                                                    *)
(***************************************************************************)
\* with tempfile.TemporaryDirectory(): a new directory; quote.xlsx written
ConvertEnter ==
    /\ pc = "convert"
    /\ \E n \in 1..MaxTmp :
         /\ ScratchDir(n) \notin fs
         /\ curTmp' = n
         /\ fs' = fs \cup {ScratchDir(n), ScratchFile(n, "quote.xlsx")}
    /\ errors' = <<>>
    /\ attempts' = <<>>
    /\ trace' = Append(trace, "convert_excel_to_pdf")
    /\ pc' = "cv_platform"
    /\ UNCHANGED <<nvars, sumvars, fillvars, hostvars, isWindows, written, calls, callvars, xlsx, pdf_bytes, response, exc>>

\* Windows: Excel automation exports quote.pdf
ConvertExcelOk ==
    /\ pc = "cv_platform"
    /\ isWindows
    /\ attempts' = Append(attempts, "excel")
    /\ fs' = fs \cup {ScratchFile(curTmp, "quote.pdf")}
    /\ pc' = "cv_return"
    /\ UNCHANGED <<nvars, sumvars, fillvars, hostvars, isWindows, written, calls, callvars, xlsx, errors, curTmp, pdf_bytes,
                   trace, response, exc>>

\* Windows: the automation block raises; the message is kept in errors
ConvertExcelFailed ==
    /\ pc = "cv_platform"
    /\ isWindows
    /\ attempts' = Append(attempts, "excel")
    /\ errors' = Append(errors, "excel_failed")
    /\ pc' = "cv_which"
    /\ UNCHANGED <<nvars, sumvars, fillvars, hostvars, isWindows, written, calls, callvars, xlsx, curTmp, fs, pdf_bytes,
                   trace, response, exc>>

\* not Windows: the automation block is skipped
ConvertSkipExcel ==
    /\ pc = "cv_platform"
    /\ ~isWindows
    /\ pc' = "cv_which"
    /\ UNCHANGED <<nvars, sumvars, fillvars, hostvars, isWindows, written, calls, callvars, xlsx, cvvars, fs, trace, response, exc>>

\* shutil.which("soffice") finds nothing
ConvertSofficeMissing ==
    /\ pc = "cv_which"
    /\ pc' = "cv_end"
    /\ UNCHANGED <<nvars, sumvars, fillvars, hostvars, isWindows, written, calls, callvars, xlsx, cvvars, fs, trace, response, exc>>

\* soffice exits 0 and quote.pdf exists in the scratch directory
ConvertSofficeOk ==
    /\ pc = "cv_which"
    /\ attempts' = Append(attempts, "soffice")
    /\ fs' = fs \cup {ScratchFile(curTmp, "quote.pdf")}
    /\ pc' = "cv_return"
    /\ UNCHANGED <<nvars, sumvars, fillvars, hostvars, isWindows, written, calls, callvars, xlsx, errors, curTmp, pdf_bytes,
                   trace, response, exc>>

\* soffice exits non-zero or leaves no quote.pdf:
\* errors.append(result.stderr or result.stdout or default text)
ConvertSofficeFailed ==
    /\ pc = "cv_which"
    /\ attempts' = Append(attempts, "soffice")
    /\ \E m \in {"soffice_stderr", "soffice_stdout", "libreoffice_failed"} :
         errors' = Append(errors, m)
    /\ pc' = "cv_end"
    /\ UNCHANGED <<nvars, sumvars, fillvars, hostvars, isWindows, written, calls, callvars, xlsx, curTmp, fs, pdf_bytes,
                   trace, response, exc>>

\* subprocess.run itself raises (not inside any try of convert_excel_to_pdf):
\* the exception leaves the with block as it is
ConvertSofficeRaised ==
    /\ pc = "cv_which"
    /\ attempts' = Append(attempts, "soffice")
    /\ exc' = [type |-> "OSError", text |-> <<"soffice_run_error">>]
    /\ fs' = CleanupScratch(fs, curTmp)
    /\ trace' = Append(trace, "convert_raised")
    /\ pc' = "cv_raised"
    /\ UNCHANGED <<nvars, sumvars, fillvars, hostvars, isWindows, written, calls, callvars, xlsx, errors, curTmp,
                   pdf_bytes, response>>

\* return pdf_path.read_bytes(), leaving the with block
ConvertReturn ==
    /\ pc = "cv_return"
    /\ \E b \in PdfContents : pdf_bytes' = b
    /\ fs' = CleanupScratch(fs, curTmp)
    /\ trace' = Append(trace, "convert_returned")
    /\ pc' = "converted"
    /\ UNCHANGED <<nvars, sumvars, fillvars, hostvars, isWindows, written, calls, callvars, xlsx, errors, attempts,
                   curTmp, response, exc>>

\* the text of the RuntimeError: " / ".join(errors), as the list of its parts
JoinedErrors(errs) == IF errs = <<>> THEN <<"no_converter_found">> ELSE errs

\* no backend returned: raise RuntimeError(" / ".join(errors))
ConvertRaise ==
    /\ pc = "cv_end"
    /\ exc' = [type |-> "RuntimeError", text |-> JoinedErrors(errors)]
    /\ fs' = CleanupScratch(fs, curTmp)
    /\ trace' = Append(trace, "convert_raised")
    /\ pc' = "cv_raised"
    /\ UNCHANGED <<nvars, sumvars, fillvars, hostvars, isWindows, written, calls, callvars, xlsx, errors, attempts,
                   curTmp, pdf_bytes, response>>

ConvertErrorCaught_ignored_mutant ==
    /\ pc = "cv_raised"
    /\ pc' = "converted"
    /\ UNCHANGED <<nvars, sumvars, fillvars, hostvars, isWindows, written, calls, callvars, xlsx, cvvars, fs, trace,
                   response, exc>>

\* handle_event, except Exception around the conversion: a message response
ConvertErrorCaught ==
    /\ pc = "cv_raised"
    /\ response' = MessageResponse(request_id, "pdf_failed", exc.text)
    /\ trace' = Append(trace, "return")
    /\ pc' = "done"
    /\ UNCHANGED <<nvars, sumvars, fillvars, hostvars, isWindows, written, calls, callvars, xlsx, cvvars, fs, exc>>

(***************************************************************************)
(* handle_event after a successful conversion                              *)
(***************************************************************************)
\* action == "send_email" and not email
RespondEmailMissing ==
    /\ pc = "converted"
    /\ action = "send_email"
    /\ email = <<>>
    /\ response' = MessageResponse(request_id, "enter_email", <<>>)
    /\ trace' = Append(trace, "return")
    /\ pc' = "done"
    /\ UNCHANGED <<nvars, sumvars, fillvars, hostvars, isWindows, written, calls, callvars, xlsx, cvvars, fs, exc>>

\* send_email returns: credentials resolved and the message was sent
DeliverOk ==
    /\ pc = "converted"
    /\ action = "send_email"
    /\ email # <<>>
    /\ trace' = trace \o <<"send_email", "mail_sent">>
    /\ pc' = "save"
    /\ UNCHANGED <<nvars, sumvars, fillvars, hostvars, isWindows, written, calls, callvars, xlsx, cvvars, fs, response, exc>>

DeliverFailed_swallowed_mutant ==
    /\ pc = "converted"
    /\ action = "send_email"
    /\ email # <<>>
    /\ trace' = Append(trace, "send_email")
    /\ pc' = "save"
    /\ UNCHANGED <<nvars, sumvars, fillvars, hostvars, isWindows, written, calls, callvars, xlsx, cvvars, fs, response, exc>>

\* send_email raises (no credentials, secrets store error, SMTP failure);
\* the except clause of handle_event answers with a message
DeliverFailed ==
    /\ pc = "converted"
    /\ action = "send_email"
    /\ email # <<>>
    /\ \E cause \in {"credentials_missing", "secrets_error", "smtp_error"} :
         response' = MessageResponse(request_id, "send_failed", <<cause>>)
    /\ trace' = trace \o <<"send_email", "send_raised", "return">>
    /\ pc' = "done"
    /\ UNCHANGED <<nvars, sumvars, fillvars, hostvars, isWindows, written, calls, callvars, xlsx, cvvars, fs, exc>>

\* save_artifacts writes {file_stem}.xlsx and, if pdf_bytes, {file_stem}.pdf;
\* then the pdf response with the success note is returned
PersistOk ==
    /\ pc = "save"
    /\ written' = {SavedFile("stem.xlsx")}
                     \cup (IF pdf_bytes # <<>> THEN {SavedFile("stem.pdf")} ELSE {})
    /\ fs' = fs \cup written'
    /\ response' = SentResponse(request_id, pdf_bytes)
    /\ trace' = trace \o <<"save_artifacts", "return">>
    /\ pc' = "done"
    /\ UNCHANGED <<nvars, sumvars, fillvars, hostvars, isWindows, calls, callvars, xlsx, cvvars, exc>>

PersistFailed_raising_mutant ==
    /\ pc = "save"
    /\ exc' = [type |-> "OSError", text |-> <<"os_error">>]
    /\ trace' = trace \o <<"save_artifacts", "save_raised">>
    /\ pc' = "raised"
    /\ UNCHANGED <<nvars, sumvars, fillvars, hostvars, isWindows, written, calls, callvars, xlsx, cvvars, fs, response>>

\* save_artifacts raises at mkdir, at the xlsx write or at the pdf write (the
\* xlsx is then already written); the except clause answers with a message
PersistFailed ==
    /\ pc = "save"
    /\ \E stage \in {"mkdir", "xlsx", "pdf"} :
         /\ stage = "pdf" => pdf_bytes # <<>>
         /\ written' = IF stage = "pdf" THEN {SavedFile("stem.xlsx")} ELSE {}
    /\ fs' = fs \cup written'
    /\ response' = MessageResponse(request_id, "send_failed", <<"os_error">>)
    /\ trace' = trace \o <<"save_artifacts", "save_raised", "return">>
    /\ pc' = "done"
    /\ UNCHANGED <<nvars, sumvars, fillvars, hostvars, isWindows, calls, callvars, xlsx, cvvars, exc>>

\* action == "download_pdf"
RespondDownload ==
    /\ pc = "converted"
    /\ action = "download_pdf"
    /\ response' = FileResponse(request_id, "pdf", pdf_bytes)
    /\ trace' = Append(trace, "return")
    /\ pc' = "done"
    /\ UNCHANGED <<nvars, sumvars, fillvars, hostvars, isWindows, written, calls, callvars, xlsx, cvvars, fs, exc>>

RespondPreview_as_pdf_mutant ==
    /\ pc = "converted"
    /\ action = "preview_pdf"
    /\ response' = FileResponse(request_id, "pdf", pdf_bytes)
    /\ trace' = Append(trace, "return")
    /\ pc' = "done"
    /\ UNCHANGED <<nvars, sumvars, fillvars, hostvars, isWindows, written, calls, callvars, xlsx, cvvars, fs, exc>>

\* action == "preview_pdf"
RespondPreview ==
    /\ pc = "converted"
    /\ action = "preview_pdf"
    /\ response' = FileResponse(request_id, "preview", pdf_bytes)
    /\ trace' = Append(trace, "return")
    /\ pc' = "done"
    /\ UNCHANGED <<nvars, sumvars, fillvars, hostvars, isWindows, written, calls, callvars, xlsx, cvvars, fs, exc>>

\* any other action, or none
RespondUnknown ==
    /\ pc = "converted"
    /\ action \notin {"send_email", "download_pdf", "preview_pdf"}
    /\ response' = MessageResponse(request_id, "unknown_request", <<>>)
    /\ trace' = Append(trace, "return")
    /\ pc' = "done"
    /\ UNCHANGED <<nvars, sumvars, fillvars, hostvars, isWindows, written, calls, callvars, xlsx, cvvars, fs, exc>>

\* the call is over (returned or raised); the host may call again
CallOver ==
    /\ pc \in {"done", "raised"}
    /\ pc' = "idle"
    /\ event' = NoEvent
    /\ written' = {}
    /\ action' = "None"
    /\ email' = <<>>
    /\ request_id' = <<>>
    /\ xlsx' = <<>>
    /\ errors' = <<>>
    /\ attempts' = <<>>
    /\ curTmp' = 0
    /\ pdf_bytes' = <<>>
    /\ trace' = <<>>
    /\ response' = NoResponse
    /\ exc' = NoException
    /\ UNCHANGED <<nvars, sumvars, fillvars, hostvars, isWindows, calls, fs>>

(***************************************************************************)
(* The host script: one run per rerun of the page, lines 780-801           *)
(***************************************************************************)
\* script runs in one session
MaxRuns == 2

\* the component returned None
NoPayload == [dict |-> FALSE, action |-> "None", email |-> PyNone, request_id |-> PyNone]

\* what the component can return: nothing, or the last event the page
\* posted (the same value again on a rerun), with or without a request id
HostPayloads ==
    {NoPayload}
        \cup [dict : {TRUE}, action : EventActions, email : RawEmails,
              request_id : {PyNone, PyStr(<<>>), PyStr(<<"r", "1">>), PyStr(<<"r", "2">>)}]

NoSnapshot == [last |-> PyNone, calls |-> 0, fs |-> {}, cached |-> NoResponse]

HostInit ==
    /\ payload = NoPayload
    /\ last_request_id = PyNone
    /\ bridge_response = NoResponse
    /\ runs = 0
    /\ took = FALSE
    /\ before = NoSnapshot
    /\ outcome = "none"

Takes_any_id_mutant(p, last) ==
    /\ p.dict
    /\ p.request_id.k = "str" /\ p.request_id.v # <<>>

\* if payload and isinstance(payload, dict): ... if request_id and
\* request_id != last_request_id
Takes(p, last) ==
    /\ p.dict
    /\ p.request_id.k = "str" /\ p.request_id.v # <<>>
    /\ p.request_id # last

\* session state and disk as the run finds them
Snapshot ==
    [last |-> last_request_id, calls |-> calls, fs |-> fs, cached |-> bridge_response]

\* a run whose payload is not taken: nothing is done
ScriptRunSkip ==
    /\ pc = "idle"
    /\ runs < MaxRuns
    /\ \E p \in HostPayloads :
         /\ ~Takes(p, last_request_id)
         /\ payload' = p
    /\ runs' = runs + 1
    /\ took' = FALSE
    /\ before' = Snapshot
    /\ UNCHANGED <<last_request_id, bridge_response, outcome,
                   nvars, sumvars, fillvars, hvars>>

\* a run whose payload is taken: last_request_id is set, then handle_event
\* is called with the payload (lines 793-800)
ScriptRunTake ==
    /\ pc = "idle"
    /\ runs < MaxRuns
    /\ \E p \in HostPayloads :
         /\ Takes(p, last_request_id)
         /\ payload' = p
         /\ last_request_id' = p.request_id
         /\ event' = [action |-> p.action, email |-> p.email, request_id |-> p.request_id]
         /\ action' = p.action
         /\ email' = ParseText(p.email)
         /\ request_id' = IF p.request_id.k = "str" /\ p.request_id.v # <<>>
                          THEN p.request_id.v ELSE ClockId
    /\ runs' = runs + 1
    /\ took' = TRUE
    /\ before' = Snapshot
    /\ outcome' = "running"
    /\ calls' = calls + 1
    /\ pc' = "build"
    /\ written' = {}
    /\ trace' = <<>>
    /\ response' = NoResponse
    /\ exc' = NoException
    /\ xlsx' = <<>>
    /\ UNCHANGED <<bridge_response, nvars, sumvars, fillvars, isWindows, cvvars, fs>>

\* the locals of the finished call are gone
LocalsCleared ==
    /\ event' = NoEvent
    /\ written' = {}
    /\ action' = "None"
    /\ email' = <<>>
    /\ request_id' = <<>>
    /\ xlsx' = <<>>
    /\ errors' = <<>>
    /\ attempts' = <<>>
    /\ curTmp' = 0
    /\ pdf_bytes' = <<>>
    /\ trace' = <<>>
    /\ response' = NoResponse
    /\ exc' = NoException

\* st.session_state["bridge_response"] = response (line 801)
StoreResponse ==
    /\ pc = "done"
    /\ bridge_response' = response
    /\ outcome' = "returned"
    /\ pc' = "idle"
    /\ LocalsCleared
    /\ UNCHANGED <<payload, last_request_id, runs, took, before,
                   nvars, sumvars, fillvars, isWindows, calls, fs>>

\* handle_event raised: the run ends at line 797 and line 801 is not reached
RunAborted ==
    /\ pc = "raised"
    /\ outcome' = "raised"
    /\ pc' = "idle"
    /\ LocalsCleared
    /\ UNCHANGED <<payload, last_request_id, bridge_response, runs, took, before,
                   nvars, sumvars, fillvars, isWindows, calls, fs>>

(***************************************************************************)
(* normalize_rows applied to raw row sequences                             *)
(***************************************************************************)
NInit ==
    /\ rows = <<>>
    /\ normalized = <<>>
    /\ renormalized = <<>>
    /\ npc = "input"

AddRichRow ==
    /\ npc = "input"
    /\ rows = <<>>
    /\ \E r \in RichRows : rows' = Append(rows, r)
    /\ UNCHANGED <<normalized, renormalized, npc, sumvars, fillvars, hostvars, hvars>>

AddPlainRow ==
    /\ npc = "input"
    /\ rows # <<>>
    /\ Len(rows) < MaxRows
    /\ \E r \in PlainRows(Len(rows) + 1) : rows' = Append(rows, r)
    /\ UNCHANGED <<normalized, renormalized, npc, sumvars, fillvars, hostvars, hvars>>

\* normalize_rows(rows), and normalize_rows applied to its own result
ApplyNormalize ==
    /\ npc = "input"
    /\ normalized' = normalize_rows(rows)
    /\ renormalized' = normalize_rows(AsRawRows(normalize_rows(rows)))
    /\ npc' = "done"
    /\ UNCHANGED <<rows, sumvars, fillvars, hostvars, hvars>>

NNext == AddRichRow \/ AddPlainRow \/ ApplyNormalize

(***************************************************************************)
(* build_summary_text applied to pairs of prepay totals                    *)
(***************************************************************************)
\* no summary is being computed
SIdle ==
    /\ total1 = 0
    /\ total2 = 0
    /\ summary = <<>>
    /\ summary_rev = <<>>
    /\ spc = "off"

SInit ==
    /\ total1 \in PrepayTotals
    /\ total2 \in PrepayTotals
    /\ summary = <<>>
    /\ summary_rev = <<>>
    /\ spc = "input"

\* build_summary_text(total1, total2) and, the arguments swapped,
\* build_summary_text(total2, total1)
ApplySummary ==
    /\ spc = "input"
    /\ summary' = build_summary_text(total1, total2)
    /\ summary_rev' = build_summary_text(total2, total1)
    /\ spc' = "done"
    /\ UNCHANGED <<total1, total2, nvars, fillvars, hostvars, hvars>>

(***************************************************************************)
(* fill_template applied as handle_event applies it                        *)
(***************************************************************************)
\* no document is being filled
FIdle ==
    /\ plan1_rows_norm = <<>>
    /\ plan2_rows_norm = <<>>
    /\ discount1 = 0
    /\ discount2 = 0
    /\ totals = NoTotals
    /\ ws = <<>>
    /\ fpc = "off"

FInit ==
    /\ plan1_rows_norm \in {normalize_rows(r) : r \in FillRawPlans}
    /\ plan2_rows_norm \in {normalize_rows(r) : r \in FillRawPlans}
    /\ discount1 \in DiscountHalves
    /\ discount2 \in DiscountHalves
    /\ totals = NoTotals
    /\ ws = <<>>
    /\ fpc = "input"

\* handle_event, lines 619-640: totals, prepay totals, summary, then
\* fill_template on the template's active sheet
FillTemplate ==
    /\ fpc = "input"
    /\ LET t1 == compute_totals(plan1_rows_norm)
           t2 == compute_totals(plan2_rows_norm)
           p1 == Prepay(t1, discount1)
           p2 == Prepay(t2, discount2)
       IN  /\ totals' = [t1 |-> t1, t2 |-> t2, p1 |-> p1, p2 |-> p2]
           /\ ws' = fill_template(<<"R">>, <<"7">>, <<"date_label">>, <<"a", "@", "b">>,
                                  plan1_rows_norm, plan2_rows_norm, t1, t2, p1, p2,
                                  build_summary_text(p1, p2))
    /\ fpc' = "done"
    /\ UNCHANGED <<plan1_rows_norm, plan2_rows_norm, discount1, discount2,
                   nvars, sumvars, hostvars, hvars>>

Init == NInit /\ SIdle /\ FIdle /\ HostInit /\ HInit

Next ==
    \/ HandleEvent \/ BuildDocument \/ TemplateMissing
    \/ ConvertEnter \/ ConvertExcelOk \/ ConvertExcelFailed \/ ConvertSkipExcel
    \/ ConvertSofficeMissing \/ ConvertSofficeOk \/ ConvertSofficeFailed
    \/ ConvertSofficeRaised \/ ConvertReturn \/ ConvertRaise \/ ConvertErrorCaught
    \/ RespondEmailMissing \/ DeliverOk \/ DeliverFailed \/ PersistOk
    \/ PersistFailed \/ RespondDownload \/ RespondPreview \/ RespondUnknown
    \/ CallOver

Spec == Init /\ [][Next]_vars

\* normalize_rows alone: the handler is idle and never called
InitN == NInit /\ SIdle /\ FIdle /\ HostInit /\ HInit /\ isWindows = FALSE

SpecN == InitN /\ [][NNext]_vars

\* build_summary_text alone
InitS == NInit /\ SInit /\ FIdle /\ HostInit /\ HInit /\ isWindows = FALSE

SpecS == InitS /\ [][ApplySummary]_vars

\* fill_template alone
InitF == NInit /\ SIdle /\ FInit /\ HostInit /\ HInit /\ isWindows = FALSE

SpecF == InitF /\ [][FillTemplate]_vars

\* the host script calling handle_event
HostNext ==
    \/ ScriptRunSkip \/ ScriptRunTake \/ StoreResponse \/ RunAborted
    \/ BuildDocument \/ TemplateMissing
    \/ ConvertEnter \/ ConvertExcelOk \/ ConvertExcelFailed \/ ConvertSkipExcel
    \/ ConvertSofficeMissing \/ ConvertSofficeOk \/ ConvertSofficeFailed
    \/ ConvertSofficeRaised \/ ConvertReturn \/ ConvertRaise \/ ConvertErrorCaught
    \/ RespondEmailMissing \/ DeliverOk \/ DeliverFailed \/ PersistOk
    \/ PersistFailed \/ RespondDownload \/ RespondPreview \/ RespondUnknown

SpecHost == Init /\ [][HostNext]_vars

(***************************************************************************)
(* Claims about normalize_rows (checked under SpecN)                       *)
(***************************************************************************)
Kept(row) ==
    \/ ModelText(row.model) # <<>>
    \/ parse_number(row.price) # 0
    \/ parse_number(row.qty) # 0

\* the surviving rows of a raw sequence, parsed, in their original order
SurvivorsOf(raw) ==
    LET kept == SelectSeq(raw, Kept) IN
    [i \in 1..Len(kept) |->
        [model |-> ModelText(kept[i].model),
         price |-> parse_number(kept[i].price),
         qty |-> parse_number(kept[i].qty)]]

Smaller(a, b) == IF a < b THEN a ELSE b

\* C7: normalize_rows returns exactly MAX_TEMPLATE_ROWS rows, and every
\* returned row has price >= 0 and qty >= 0, for every raw row sequence.
C7_NineNonNegativeRows ==
    npc = "done" =>
        /\ Len(normalized) = MAX_TEMPLATE_ROWS
        /\ \A i \in 1..Len(normalized) :
              normalized[i].price >= 0 /\ normalized[i].qty >= 0

\* C8: the result is the first 9 survivors in their original order followed
\* by empty placeholder rows up to length 9; no placeholder precedes a
\* survivor; normalizing the result again returns it unchanged.
C8_SurvivorsThenPlaceholders ==
    npc = "done" =>
        LET s == SurvivorsOf(rows)
            n == Smaller(Len(s), MAX_TEMPLATE_ROWS)
        IN  /\ Len(normalized) = MAX_TEMPLATE_ROWS
            /\ \A i \in 1..n : normalized[i] = s[i]
            /\ \A i \in (n + 1)..MAX_TEMPLATE_ROWS : normalized[i] = EmptyRow
            /\ \A i \in 1..n : normalized[i] # EmptyRow
            /\ \A i, j \in 1..Len(normalized) :
                  (i < j /\ normalized[i] = EmptyRow) => normalized[j] = EmptyRow
            /\ renormalized = normalized

\* more than 9 rows survive and a fully empty row was dropped
C8_Witness ==
    /\ npc = "done"
    /\ Len(SurvivorsOf(rows)) > MAX_TEMPLATE_ROWS
    /\ Len(rows) > Len(SurvivorsOf(rows))

(***************************************************************************)
(* Claims about handle_event and convert_excel_to_pdf (checked under Spec) *)
(***************************************************************************)
Occurs(e) == \E i \in DOMAIN trace : trace[i] = e

Precedes(a, b) ==
    \A j \in DOMAIN trace : trace[j] = b => \E i \in 1..(j - 1) : trace[i] = a

ResponseTypes == {"message", "pdf", "preview"}

\* the raw email is missing, empty or made of whitespace only
BlankEmail(raw) == raw.k # "str" \/ \A i \in DOMAIN raw.v : IsSpace(raw.v[i])

\* C1: once convert_excel_to_pdf has raised, the call invokes neither
\* send_email nor save_artifacts and writes no file to the save directory,
\* whatever the action; it ends with a message response carrying the text of
\* the conversion error.
C1_ConversionFailureShortCircuits ==
    Occurs("convert_raised") =>
        /\ ~Occurs("send_email")
        /\ ~Occurs("save_artifacts")
        /\ written = {}
        /\ pc \in {"cv_raised", "done"}
        /\ pc = "done" =>
             /\ response.type = "message"
             /\ response.message = [text |-> "pdf_failed", detail |-> exc.text]

\* a send_email request with an address whose conversion failed
C1_Witness ==
    /\ pc = "done"
    /\ Occurs("convert_raised")
    /\ event.action = "send_email"
    /\ ~BlankEmail(event.email)

\* C2 as stated: every call ends by returning a response with id and type,
\* whichever step failed, template load included; no exception escapes.
C2_NoExceptionEscapes ==
    /\ pc # "raised"
    /\ pc = "done" =>
         /\ {"id", "type"} \subseteq response.keys
         /\ response.type \in ResponseTypes

\* C2 amended: a call whose document was built ends by returning a response
\* with id and type in {message, pdf, preview}; a failure of conversion,
\* credential resolution, mail transport or persistence gives a message
\* response.  Only the FileNotFoundError of load_template escapes.
C2_ResponseOnceDocumentBuilt ==
    /\ pc = "raised" =>
         /\ exc.type = "FileNotFoundError"
         /\ trace = <<"build_excel_bytes">>
         /\ response = NoResponse
    /\ pc = "done" =>
         /\ {"id", "type"} \subseteq response.keys
         /\ response.id # <<>>
         /\ response.type \in ResponseTypes
         /\ (Occurs("convert_raised") \/ Occurs("send_raised") \/ Occurs("save_raised"))
              => response.type = "message"

\* persistence failed after the mail was sent, and a message came back
C2_Witness ==
    /\ pc = "done"
    /\ Occurs("save_raised")
    /\ response.type = "message"

\* C3: in a send_email call whose raw email is empty or whitespace only,
\* send_email and save_artifacts are never invoked and no file is written;
\* the response the call returns is of type message.
C3_BlankEmailNoDelivery ==
    (pc # "idle" /\ event.action = "send_email" /\ BlankEmail(event.email)) =>
        /\ ~Occurs("send_email")
        /\ ~Occurs("save_artifacts")
        /\ written = {}
        /\ pc = "done" => response.type = "message"

\* a whitespace-only address, conversion succeeded, the call answered
C3_Witness ==
    /\ pc = "done"
    /\ event.action = "send_email"
    /\ event.email = PyStr(<<" ">>)
    /\ Occurs("convert_returned")
    /\ response.message.text = "enter_email"

\* C4: in a send_email call with an address and a successful conversion,
\* save_artifacts runs only after the mail was sent; the pdf response with
\* the success note comes only after delivery and persistence completed; a
\* failed delivery gives a message response and persists nothing.
C4_DeliveryBeforePersistence ==
    (event.action = "send_email" /\ ~BlankEmail(event.email)
        /\ Occurs("convert_returned")) =>
        /\ Precedes("mail_sent", "save_artifacts")
        /\ written # {} => Occurs("mail_sent")
        /\ Occurs("send_raised") =>
             /\ ~Occurs("mail_sent")
             /\ ~Occurs("save_artifacts")
             /\ written = {}
             /\ pc = "done" /\ response.type = "message"
        /\ pc = "done" => response.type \in {"pdf", "message"}
        /\ (pc = "done" /\ response.type = "pdf") =>
             /\ Occurs("mail_sent")
             /\ Occurs("save_artifacts")
             /\ ~Occurs("save_raised")
             /\ SavedFile("stem.xlsx") \in written
             /\ response.message.text = "mail_sent"
             /\ response.content = B64(pdf_bytes)

\* the mail was sent, persistence failed: a sent mail and no saved artifact
C4_Witness ==
    /\ pc = "done"
    /\ event.action = "send_email"
    /\ Occurs("mail_sent")
    /\ written = {}
    /\ response.type = "message"

\* C5: a call with an action other than download_pdf, preview_pdf and
\* send_email (or with none) answers with the unrecognized-request message
\* whatever the outcome of conversion, and never delivers or persists.
C5_UnknownActionUnrecognized ==
    (pc = "done" /\ event.action \notin {"download_pdf", "preview_pdf", "send_email"}) =>
        /\ response.type = "message"
        /\ response.message.text = "unknown_request"
        /\ ~Occurs("send_email")
        /\ ~Occurs("save_artifacts")
        /\ written = {}

\* C6: after a successful conversion download_pdf answers with type pdf and
\* preview_pdf with type preview, each with the filename and the base64 of
\* the converted bytes; neither sends mail, preview_pdf writes no file, and
\* files are written only after a successful conversion and only in a
\* send_email or download_pdf call.
C6_DownloadAndPreview ==
    /\ (pc = "done" /\ Occurs("convert_returned")
          /\ event.action \in {"download_pdf", "preview_pdf"}) =>
         /\ response.type = (IF event.action = "download_pdf" THEN "pdf" ELSE "preview")
         /\ {"filename", "content"} \subseteq response.keys
         /\ response.filename = "stem.pdf"
         /\ response.content = B64(pdf_bytes)
    /\ event.action \in {"download_pdf", "preview_pdf"} => ~Occurs("send_email")
    /\ event.action = "preview_pdf" => written = {} /\ ~Occurs("save_artifacts")
    /\ written # {} =>
         /\ event.action \in {"send_email", "download_pdf"}
         /\ Occurs("convert_returned")

\* a preview answered after a successful conversion
C6_Witness ==
    /\ pc = "done"
    /\ event.action = "preview_pdf"
    /\ Occurs("convert_returned")
    /\ response.type = "preview"

BackendMessages(b) ==
    IF b = "excel" THEN {"excel_failed"}
    ELSE {"soffice_stderr", "soffice_stdout", "libreoffice_failed", "soffice_run_error"}

\* C9: the backends run in ranked order, each at most once: Excel automation
\* first and only on Windows, soffice only when automation was not applicable
\* or failed; a success ends the call with no later backend run; when the
\* call raises, the text of its error joins one message per attempted
\* backend, or is the no-converter message when none was attempted.
C9_RankedBackendsAggregatedError ==
    /\ attempts \in {<<>>, <<"excel">>, <<"soffice">>, <<"excel", "soffice">>}
    /\ (attempts # <<>> /\ attempts[1] = "excel") => isWindows
    /\ (attempts # <<>> /\ isWindows) => attempts[1] = "excel"
    /\ attempts = <<"excel", "soffice">> => (errors # <<>> /\ errors[1] = "excel_failed")
    /\ Occurs("convert_returned") => Len(errors) = Len(attempts) - 1
    /\ Occurs("convert_raised") =>
         IF attempts = <<>> THEN exc.text = <<"no_converter_found">>
         ELSE /\ Len(exc.text) = Len(attempts)
              /\ \A i \in DOMAIN attempts : exc.text[i] \in BackendMessages(attempts[i])

InConvert == pc \in {"cv_platform", "cv_which", "cv_end", "cv_return"}

\* C10: while convert_excel_to_pdf runs, its scratch directory exists and
\* holds quote.xlsx; quote.xlsx and quote.pdf exist nowhere else and nothing
\* is written to the save directory; once the call has returned or raised,
\* no scratch directory and no scratch file exists.
C10_ScratchDirectoryScoped ==
    /\ InConvert =>
         /\ ScratchDir(curTmp) \in fs
         /\ ScratchFile(curTmp, "quote.xlsx") \in fs
         /\ written = {}
    /\ \A f \in fs :
         /\ f.root = "tmp" =>
              /\ InConvert
              /\ f.n = curTmp
              /\ f.name \in {"", "quote.xlsx", "quote.pdf"}
         /\ f.name \in {"quote.xlsx", "quote.pdf"} => f.root = "tmp"
    /\ pc \in {"converted", "cv_raised"} => {f \in fs : f.root = "tmp"} = {}

\* subprocess.run raised inside the with block and the directory is gone
C10_Witness ==
    /\ pc = "cv_raised"
    /\ exc.type = "OSError"
    /\ attempts # <<>>
    /\ ScratchDir(curTmp) \notin fs

(***************************************************************************)
(* Claims about build_summary_text (checked under SpecS)                   *)
(***************************************************************************)
RECURSIVE AmountsIn(_, _, _)
\* the amounts printed in a text, in order: digits are read up to each
\* currency suffix, commas skipped
AmountsIn(text, digits, found) ==
    IF text = <<>> THEN found
    ELSE IF IsDigit(Head(text))
         THEN AmountsIn(Tail(text), Append(digits, Head(text)), found)
    ELSE IF Head(text) = ","
         THEN AmountsIn(Tail(text), digits, found)
    ELSE IF Head(text) = "won"
         THEN AmountsIn(Tail(text), <<>>, Append(found, IntOfDigits(digits)))
    ELSE AmountsIn(Tail(text), <<>>, found)

Has(text, word) == \E i \in DOMAIN text : text[i] = word

\* the direction a summary text describes
Direction(text) ==
    IF Has(text, "discount") THEN "savings"
    ELSE IF Has(text, "extra") THEN "extra_cost"
    ELSE IF Has(text, "difference") THEN "none"
    ELSE "unknown"

Distance(a, b) == IF a < b THEN b - a ELSE a - b

\* C11: build_summary_text(p1, p2) reports savings with the yearly amount
\* 12*(p1-p2) and the monthly amount p1-p2 when p2 < p1, a monthly extra
\* cost of p2-p1 when p2 > p1, and difference 0 when p1 = p2; with the
\* arguments swapped the direction is the opposite one and the monthly
\* amount the same.
C11_SummaryAntisymmetric ==
    spc = "done" =>
        /\ total2 < total1 =>
             /\ Direction(summary) = "savings"
             /\ AmountsIn(summary, <<>>, <<>>) = <<12 * (total1 - total2), total1 - total2>>
             /\ Direction(summary_rev) = "extra_cost"
        /\ total2 > total1 =>
             /\ Direction(summary) = "extra_cost"
             /\ AmountsIn(summary, <<>>, <<>>) = <<total2 - total1>>
             /\ Direction(summary_rev) = "savings"
        /\ total1 = total2 =>
             /\ Direction(summary) = "none"
             /\ AmountsIn(summary, <<>>, <<>>) = <<0>>
             /\ summary_rev = summary
        /\ total1 # total2 =>
             LET a == AmountsIn(summary, <<>>, <<>>)
                 b == AmountsIn(summary_rev, <<>>, <<>>)
             IN  /\ a[Len(a)] = Distance(total1, total2)
                 /\ b[Len(b)] = Distance(total1, total2)

\* scenario 2 of the specification: 90000 against 80000 gives
\* "yearly 120,000won discount / monthly 10,000won discount"
C11_Witness ==
    /\ spc = "done"
    /\ total1 = 90000
    /\ total2 = 80000
    /\ summary = <<"yearly", " ", "1", "2", "0", ",", "0", "0", "0", "won", " ",
                   "discount", " ", "/", " ", "monthly", " ",
                   "1", "0", ",", "0", "0", "0", "won", " ", "discount">>
    /\ Direction(summary_rev) = "extra_cost"

(***************************************************************************)
(* Claims about fill_template (checked under SpecF)                        *)
(***************************************************************************)
\* the cell holds the number, or is blank when the number is zero
HoldsOrBlank(cell, value) ==
    IF value = 0 THEN ws[cell] = Blank ELSE ws[cell] = PyInt(value)

\* the price, quantity and line-total cells of a plan hold its rows
PlanReadsBack(planRows, priceCol, qtyCol, totalCol) ==
    \A i \in 1..MAX_TEMPLATE_ROWS :
        /\ HoldsOrBlank(<<priceCol, 14 + i>>, planRows[i].price)
        /\ HoldsOrBlank(<<qtyCol, 14 + i>>, planRows[i].qty)
        /\ HoldsOrBlank(<<totalCol, 14 + i>>, planRows[i].price * planRows[i].qty)

\* C12 as stated: every per-row cell of both plans and every totals cell
\* (E11, N11, E12, N12) holds its value when non-zero and is blank exactly
\* when the value is zero.
C12_AllNumericCellsBlankWhenZero ==
    fpc = "done" =>
        /\ PlanReadsBack(plan1_rows_norm, "E", "G", "H")
        /\ PlanReadsBack(plan2_rows_norm, "N", "P", "Q")
        /\ HoldsOrBlank(<<"E", 11>>, totals.t1)
        /\ HoldsOrBlank(<<"N", 11>>, totals.t2)
        /\ HoldsOrBlank(<<"E", 12>>, totals.p1)
        /\ HoldsOrBlank(<<"N", 12>>, totals.p2)

\* C12 amended: the per-row price, quantity and line-total cells of both
\* plans hold the value when non-zero and are blank exactly when it is zero;
\* the totals cells E11, N11, E12, N12 always hold the number, 0 included;
\* plan 2 overwrites neither a plan 1 cell nor a totals cell.
C12_RowCellsBlankTotalsNumeric ==
    fpc = "done" =>
        /\ PlanReadsBack(plan1_rows_norm, "E", "G", "H")
        /\ PlanReadsBack(plan2_rows_norm, "N", "P", "Q")
        /\ \A i \in 1..MAX_TEMPLATE_ROWS :
              /\ ws[<<"B", 14 + i>>] = PyStr(plan1_rows_norm[i].model)
              /\ ws[<<"K", 14 + i>>] = PyStr(plan2_rows_norm[i].model)
        /\ ws[<<"E", 11>>] = PyInt(totals.t1)
        /\ ws[<<"N", 11>>] = PyInt(totals.t2)
        /\ ws[<<"E", 12>>] = PyInt(totals.p1)
        /\ ws[<<"N", 12>>] = PyInt(totals.p2)

\* plan 1 has a price without a quantity (total 0, written as 0 in E11 and
\* E12, line total blank) next to a plan 2 with a non-zero total
C12_Witness ==
    /\ fpc = "done"
    /\ totals.t1 = 0
    /\ plan1_rows_norm[1].price # 0
    /\ ws[<<"E", 11>>] = PyInt(0)
    /\ ws[<<"H", 15>>] = Blank
    /\ totals.t2 # 0
    /\ totals.p2 # totals.t2


(***************************************************************************)
(* The host's request-id check                                             *)
(***************************************************************************)
HasRequestId(p) == p.dict /\ p.request_id.k = "str" /\ p.request_id.v # <<>>

\* the latest run passed its payload to handle_event: the payload had a
\* request id other than the one the run found recorded, and that id is
\* the recorded one now
TakenWhenFresh ==
    (runs > 0 /\ took) =>
        /\ HasRequestId(payload)
        /\ payload.request_id # before.last
        /\ last_request_id = payload.request_id
        /\ calls = before.calls + 1

\* the latest run did not take its payload: no call, no file, the same
\* recorded id and the same cached response as the run found
SkippedRunInert ==
    (runs > 0 /\ ~took) =>
        /\ pc = "idle"
        /\ last_request_id = before.last
        /\ calls = before.calls
        /\ fs = before.fs
        /\ bridge_response = before.cached

\* a payload carrying the recorded id again is not taken
DuplicateSkipped ==
    (runs > 0 /\ HasRequestId(payload) /\ payload.request_id = before.last) => ~took

\* C13 as stated: an event reaches handle_event only with a request id
\* other than the last-processed one, which then becomes the last-processed
\* id; a duplicate or re-delivered payload causes no second call, conversion
\* or file write; and between runs the cached response is the one produced
\* for the last-processed request id.
C13_CachedResponseForLastProcessedId ==
    /\ TakenWhenFresh
    /\ SkippedRunInert
    /\ DuplicateSkipped
    /\ (pc = "idle" /\ last_request_id # PyNone) =>
           /\ bridge_response # NoResponse
           /\ PyStr(bridge_response.id) = last_request_id

\* C13 amended: the take and skip rules hold as stated; between runs the
\* cached response is the one of the latest call of handle_event that
\* returned, which is the call for the last-processed id unless that call
\* raised, and then the id stays recorded while the cache keeps what it held.
C13_CachedResponseForLastAnsweredId ==
    /\ TakenWhenFresh
    /\ SkippedRunInert
    /\ DuplicateSkipped
    /\ (pc = "idle" /\ last_request_id # PyNone) =>
           \/ /\ outcome = "returned"
              /\ bridge_response # NoResponse
              /\ PyStr(bridge_response.id) = last_request_id
           \/ /\ outcome = "raised"
              /\ bridge_response = before.cached

\* the answered event is delivered again on the next run and skipped
C13_Witness ==
    /\ pc = "idle"
    /\ runs = 2
    /\ ~took
    /\ calls = 1
    /\ HasRequestId(payload)
    /\ payload.request_id = last_request_id
    /\ PyStr(bridge_response.id) = last_request_id

====
